---- MODULE Spec2Model ----
(***************************************************************************)
(* Model of tem.py: one run of the dashboard script over an uploaded CSV.  *)
(* The script runs top to bottom: load and normalise the header, choose    *)
(* the two filters, filter, Part 1 (means and crop), Part 2 (dual-axis     *)
(* figure), Part 3 (map rows and highlight label), Part 4 (custom chart).  *)
(*                                                                         *)
(* A column name is the sequence of the Unicode code points of its         *)
(* characters, so that strip, replace and lower are computed character by  *)
(* character over the whole of Unicode.  A cell of a numeric column is     *)
(* <<>> when the CSV field is missing (NaN) and <<v>> otherwise, v being   *)
(* the decimal of the field in hundredths of a degree (temperature) or in  *)
(* whole ppm (CO2); a selection is <<>> for None and <<v>> for a value.    *)
(* Sums and means are float64, computed on the bits of the numbers, see    *)
(* the section on float64.                                                 *)
(***************************************************************************)
EXTENDS Integers, Sequences, FiniteSets

VARIABLES uploaded_file, df, pc, error, selected_country, selected_year,
          filtered_df, predicted, output, fig, map_data, plot_type,
          field_options, custom_chart

vars == <<uploaded_file, df, pc, error, selected_country, selected_year,
          filtered_df, predicted, output, fig, map_data, plot_type,
          field_options, custom_chart>>

(* ------------------------------ bounds --------------------------------- *)

MaxRows == 2

(* ------------------------- program constants --------------------------- *)

\* 1.5 and 1.0 degrees in hundredths, 400 ppm.
TempHigh == 150

TempMid == 100

Co2Limit == 400

Wheat == "Wheat, Corn, or Soybeans"

Rice == "Rice, Oats, or Barley"

Potatoes == "Potatoes, Tomatoes, or Lettuce"

CropCategories == {Wheat, Rice, Potatoes}

PlotTypes == {"Scatter Plot", "Line Chart", "Bar Chart", "Pie Chart", "Histogram"}

\* 'country'
COUNTRY == <<99, 111, 117, 110, 116, 114, 121>>

\* 'year'
YEAR == <<121, 101, 97, 114>>

\* 'temperature_anomaly'
TEMPERATURE_ANOMALY ==
  <<116, 101, 109, 112, 101, 114, 97, 116, 117, 114, 101, 95, 97, 110, 111, 109, 97, 108, 121>>

\* 'average_co2'
AVERAGE_CO2 == <<97, 118, 101, 114, 97, 103, 101, 95, 99, 111, 50>>

\* 'highlight'
HIGHLIGHT == <<104, 105, 103, 104, 108, 105, 103, 104, 116>>

RequiredColumns == {COUNTRY, YEAR, TEMPERATURE_ANOMALY, AVERAGE_CO2}

(* --------------------- column-name normalisation ----------------------- *)
(* The tables are those of Python 3.11 (Unicode 14.0).                     *)

\* The characters str.strip() removes: the 29 characters c with c.isspace().
Whitespace ==
  (9..13) \cup (28..32) \cup {133, 160, 5760} \cup (8192..8202)
  \cup {8232, 8233, 8239, 8287, 12288}

\* The simple lower-case mappings of str.lower(), as <<first, last, step,
\* delta>>: every step-th character c of first..last maps to c + delta.
LowerRules ==
  {
     <<65, 90, 1, 32>>, <<192, 214, 1, 32>>, <<216, 222, 1, 32>>, <<256, 302,
     2, 1>>, <<306, 310, 2, 1>>, <<313, 327, 2, 1>>, <<330, 374, 2, 1>>,
     <<376, 376, 1, -121>>, <<377, 381, 2, 1>>, <<385, 385, 1, 210>>, <<386,
     388, 2, 1>>, <<390, 390, 1, 206>>, <<391, 391, 1, 1>>, <<393, 394, 1,
     205>>, <<395, 395, 1, 1>>, <<398, 398, 1, 79>>, <<399, 399, 1, 202>>,
     <<400, 400, 1, 203>>, <<401, 401, 1, 1>>, <<403, 403, 1, 205>>, <<404,
     404, 1, 207>>, <<406, 406, 1, 211>>, <<407, 407, 1, 209>>, <<408, 408, 1,
     1>>, <<412, 412, 1, 211>>, <<413, 413, 1, 213>>, <<415, 415, 1, 214>>,
     <<416, 420, 2, 1>>, <<422, 422, 1, 218>>, <<423, 423, 1, 1>>, <<425, 425,
     1, 218>>, <<428, 428, 1, 1>>, <<430, 430, 1, 218>>, <<431, 431, 1, 1>>,
     <<433, 434, 1, 217>>, <<435, 437, 2, 1>>, <<439, 439, 1, 219>>, <<440,
     440, 1, 1>>, <<444, 444, 1, 1>>, <<452, 452, 1, 2>>, <<453, 453, 1, 1>>,
     <<455, 455, 1, 2>>, <<456, 456, 1, 1>>, <<458, 458, 1, 2>>, <<459, 475,
     2, 1>>, <<478, 494, 2, 1>>, <<497, 497, 1, 2>>, <<498, 500, 2, 1>>,
     <<502, 502, 1, -97>>, <<503, 503, 1, -56>>, <<504, 542, 2, 1>>, <<544,
     544, 1, -130>>, <<546, 562, 2, 1>>, <<570, 570, 1, 10795>>, <<571, 571,
     1, 1>>, <<573, 573, 1, -163>>, <<574, 574, 1, 10792>>, <<577, 577, 1,
     1>>, <<579, 579, 1, -195>>, <<580, 580, 1, 69>>, <<581, 581, 1, 71>>,
     <<582, 590, 2, 1>>, <<880, 882, 2, 1>>, <<886, 886, 1, 1>>, <<895, 895,
     1, 116>>, <<902, 902, 1, 38>>, <<904, 906, 1, 37>>, <<908, 908, 1, 64>>,
     <<910, 911, 1, 63>>, <<913, 929, 1, 32>>, <<931, 939, 1, 32>>, <<975,
     975, 1, 8>>, <<984, 1006, 2, 1>>, <<1012, 1012, 1, -60>>, <<1015, 1015,
     1, 1>>, <<1017, 1017, 1, -7>>, <<1018, 1018, 1, 1>>, <<1021, 1023, 1,
     -130>>, <<1024, 1039, 1, 80>>, <<1040, 1071, 1, 32>>, <<1120, 1152, 2,
     1>>, <<1162, 1214, 2, 1>>, <<1216, 1216, 1, 15>>, <<1217, 1229, 2, 1>>,
     <<1232, 1326, 2, 1>>, <<1329, 1366, 1, 48>>, <<4256, 4293, 1, 7264>>,
     <<4295, 4295, 1, 7264>>, <<4301, 4301, 1, 7264>>, <<5024, 5103, 1,
     38864>>, <<5104, 5109, 1, 8>>, <<7312, 7354, 1, -3008>>, <<7357, 7359, 1,
     -3008>>, <<7680, 7828, 2, 1>>, <<7838, 7838, 1, -7615>>, <<7840, 7934, 2,
     1>>, <<7944, 7951, 1, -8>>, <<7960, 7965, 1, -8>>, <<7976, 7983, 1, -8>>,
     <<7992, 7999, 1, -8>>, <<8008, 8013, 1, -8>>, <<8025, 8031, 2, -8>>,
     <<8040, 8047, 1, -8>>, <<8072, 8079, 1, -8>>, <<8088, 8095, 1, -8>>,
     <<8104, 8111, 1, -8>>, <<8120, 8121, 1, -8>>, <<8122, 8123, 1, -74>>,
     <<8124, 8124, 1, -9>>, <<8136, 8139, 1, -86>>, <<8140, 8140, 1, -9>>,
     <<8152, 8153, 1, -8>>, <<8154, 8155, 1, -100>>, <<8168, 8169, 1, -8>>,
     <<8170, 8171, 1, -112>>, <<8172, 8172, 1, -7>>, <<8184, 8185, 1, -128>>,
     <<8186, 8187, 1, -126>>, <<8188, 8188, 1, -9>>, <<8486, 8486, 1, -7517>>,
     <<8490, 8490, 1, -8383>>, <<8491, 8491, 1, -8262>>, <<8498, 8498, 1,
     28>>, <<8544, 8559, 1, 16>>, <<8579, 8579, 1, 1>>, <<9398, 9423, 1, 26>>,
     <<11264, 11311, 1, 48>>, <<11360, 11360, 1, 1>>, <<11362, 11362, 1,
     -10743>>, <<11363, 11363, 1, -3814>>, <<11364, 11364, 1, -10727>>,
     <<11367, 11371, 2, 1>>, <<11373, 11373, 1, -10780>>, <<11374, 11374, 1,
     -10749>>, <<11375, 11375, 1, -10783>>, <<11376, 11376, 1, -10782>>,
     <<11378, 11378, 1, 1>>, <<11381, 11381, 1, 1>>, <<11390, 11391, 1,
     -10815>>, <<11392, 11490, 2, 1>>, <<11499, 11501, 2, 1>>, <<11506, 11506,
     1, 1>>, <<42560, 42604, 2, 1>>, <<42624, 42650, 2, 1>>, <<42786, 42798,
     2, 1>>, <<42802, 42862, 2, 1>>, <<42873, 42875, 2, 1>>, <<42877, 42877,
     1, -35332>>, <<42878, 42886, 2, 1>>, <<42891, 42891, 1, 1>>, <<42893,
     42893, 1, -42280>>, <<42896, 42898, 2, 1>>, <<42902, 42920, 2, 1>>,
     <<42922, 42922, 1, -42308>>, <<42923, 42923, 1, -42319>>, <<42924, 42924,
     1, -42315>>, <<42925, 42925, 1, -42305>>, <<42926, 42926, 1, -42308>>,
     <<42928, 42928, 1, -42258>>, <<42929, 42929, 1, -42282>>, <<42930, 42930,
     1, -42261>>, <<42931, 42931, 1, 928>>, <<42932, 42946, 2, 1>>, <<42948,
     42948, 1, -48>>, <<42949, 42949, 1, -42307>>, <<42950, 42950, 1,
     -35384>>, <<42951, 42953, 2, 1>>, <<42960, 42960, 1, 1>>, <<42966, 42968,
     2, 1>>, <<42997, 42997, 1, 1>>, <<65313, 65338, 1, 32>>, <<66560, 66599,
     1, 40>>, <<66736, 66771, 1, 40>>, <<66928, 66964, 2, 39>>, <<66929,
     66937, 2, 39>>, <<66941, 66953, 2, 39>>, <<66957, 66961, 2, 39>>,
     <<66965, 66965, 1, 39>>, <<68736, 68786, 1, 64>>, <<71840, 71871, 1,
     32>>, <<93760, 93791, 1, 32>>, <<125184, 125217, 1, 34>> }

\* The offset of the lower-case form of c, 0 when c has no simple mapping.
LowerDelta(c) ==
  LET rules == {r \in LowerRules : r[1] <= c /\ c <= r[2] /\ (c - r[1]) % r[3] = 0}
  IN IF rules = {} THEN 0 ELSE (CHOOSE r \in rules : TRUE)[4]

\* The characters with the Unicode property Cased, as <<first, last>> ranges.
CasedRanges ==
  {
     <<65, 90>>, <<97, 122>>, <<170, 170>>, <<181, 181>>, <<186, 186>>,
     <<192, 214>>, <<216, 246>>, <<248, 442>>, <<444, 447>>, <<452, 659>>,
     <<661, 696>>, <<704, 705>>, <<736, 740>>, <<837, 837>>, <<880, 883>>,
     <<886, 887>>, <<890, 893>>, <<895, 895>>, <<902, 902>>, <<904, 906>>,
     <<908, 908>>, <<910, 929>>, <<931, 1013>>, <<1015, 1153>>, <<1162,
     1327>>, <<1329, 1366>>, <<1376, 1416>>, <<4256, 4293>>, <<4295,
     4295>>, <<4301, 4301>>, <<4304, 4346>>, <<4349, 4351>>, <<5024,
     5109>>, <<5112, 5117>>, <<7296, 7304>>, <<7312, 7354>>, <<7357,
     7359>>, <<7424, 7615>>, <<7680, 7957>>, <<7960, 7965>>, <<7968,
     8005>>, <<8008, 8013>>, <<8016, 8023>>, <<8025, 8025>>, <<8027,
     8027>>, <<8029, 8029>>, <<8031, 8061>>, <<8064, 8116>>, <<8118,
     8124>>, <<8126, 8126>>, <<8130, 8132>>, <<8134, 8140>>, <<8144,
     8147>>, <<8150, 8155>>, <<8160, 8172>>, <<8178, 8180>>, <<8182,
     8188>>, <<8305, 8305>>, <<8319, 8319>>, <<8336, 8348>>, <<8450,
     8450>>, <<8455, 8455>>, <<8458, 8467>>, <<8469, 8469>>, <<8473,
     8477>>, <<8484, 8484>>, <<8486, 8486>>, <<8488, 8488>>, <<8490,
     8493>>, <<8495, 8500>>, <<8505, 8505>>, <<8508, 8511>>, <<8517,
     8521>>, <<8526, 8526>>, <<8544, 8575>>, <<8579, 8580>>, <<9398,
     9449>>, <<11264, 11492>>, <<11499, 11502>>, <<11506, 11507>>,
     <<11520, 11557>>, <<11559, 11559>>, <<11565, 11565>>, <<42560,
     42605>>, <<42624, 42653>>, <<42786, 42887>>, <<42891, 42894>>,
     <<42896, 42954>>, <<42960, 42961>>, <<42963, 42963>>, <<42965,
     42969>>, <<42997, 42998>>, <<43000, 43002>>, <<43824, 43866>>,
     <<43868, 43880>>, <<43888, 43967>>, <<64256, 64262>>, <<64275,
     64279>>, <<65313, 65338>>, <<65345, 65370>>, <<66560, 66639>>,
     <<66736, 66771>>, <<66776, 66811>>, <<66928, 66938>>, <<66940,
     66954>>, <<66956, 66962>>, <<66964, 66965>>, <<66967, 66977>>,
     <<66979, 66993>>, <<66995, 67001>>, <<67003, 67004>>, <<67456,
     67456>>, <<67459, 67461>>, <<67463, 67504>>, <<67506, 67514>>,
     <<68736, 68786>>, <<68800, 68850>>, <<71840, 71903>>, <<93760,
     93823>>, <<119808, 119892>>, <<119894, 119964>>, <<119966, 119967>>,
     <<119970, 119970>>, <<119973, 119974>>, <<119977, 119980>>, <<119982,
     119993>>, <<119995, 119995>>, <<119997, 120003>>, <<120005, 120069>>,
     <<120071, 120074>>, <<120077, 120084>>, <<120086, 120092>>, <<120094,
     120121>>, <<120123, 120126>>, <<120128, 120132>>, <<120134, 120134>>,
     <<120138, 120144>>, <<120146, 120485>>, <<120488, 120512>>, <<120514,
     120538>>, <<120540, 120570>>, <<120572, 120596>>, <<120598, 120628>>,
     <<120630, 120654>>, <<120656, 120686>>, <<120688, 120712>>, <<120714,
     120744>>, <<120746, 120770>>, <<120772, 120779>>, <<122624, 122633>>,
     <<122635, 122654>>, <<125184, 125251>>, <<127280, 127305>>, <<127312,
     127337>>, <<127344, 127369>> }

Cased(c) == \E r \in CasedRanges : r[1] <= c /\ c <= r[2]

\* The characters with the Unicode property Case_Ignorable, as ranges.
CaseIgnorableRanges ==
  {
     <<39, 39>>, <<46, 46>>, <<58, 58>>, <<94, 94>>, <<96, 96>>, <<168,
     168>>, <<173, 173>>, <<175, 175>>, <<180, 180>>, <<183, 184>>, <<688,
     879>>, <<884, 885>>, <<890, 890>>, <<900, 901>>, <<903, 903>>,
     <<1155, 1161>>, <<1369, 1369>>, <<1375, 1375>>, <<1425, 1469>>,
     <<1471, 1471>>, <<1473, 1474>>, <<1476, 1477>>, <<1479, 1479>>,
     <<1524, 1524>>, <<1536, 1541>>, <<1552, 1562>>, <<1564, 1564>>,
     <<1600, 1600>>, <<1611, 1631>>, <<1648, 1648>>, <<1750, 1757>>,
     <<1759, 1768>>, <<1770, 1773>>, <<1807, 1807>>, <<1809, 1809>>,
     <<1840, 1866>>, <<1958, 1968>>, <<2027, 2037>>, <<2042, 2042>>,
     <<2045, 2045>>, <<2070, 2093>>, <<2137, 2139>>, <<2184, 2184>>,
     <<2192, 2193>>, <<2200, 2207>>, <<2249, 2306>>, <<2362, 2362>>,
     <<2364, 2364>>, <<2369, 2376>>, <<2381, 2381>>, <<2385, 2391>>,
     <<2402, 2403>>, <<2417, 2417>>, <<2433, 2433>>, <<2492, 2492>>,
     <<2497, 2500>>, <<2509, 2509>>, <<2530, 2531>>, <<2558, 2558>>,
     <<2561, 2562>>, <<2620, 2620>>, <<2625, 2626>>, <<2631, 2632>>,
     <<2635, 2637>>, <<2641, 2641>>, <<2672, 2673>>, <<2677, 2677>>,
     <<2689, 2690>>, <<2748, 2748>>, <<2753, 2757>>, <<2759, 2760>>,
     <<2765, 2765>>, <<2786, 2787>>, <<2810, 2815>>, <<2817, 2817>>,
     <<2876, 2876>>, <<2879, 2879>>, <<2881, 2884>>, <<2893, 2893>>,
     <<2901, 2902>>, <<2914, 2915>>, <<2946, 2946>>, <<3008, 3008>>,
     <<3021, 3021>>, <<3072, 3072>>, <<3076, 3076>>, <<3132, 3132>>,
     <<3134, 3136>>, <<3142, 3144>>, <<3146, 3149>>, <<3157, 3158>>,
     <<3170, 3171>>, <<3201, 3201>>, <<3260, 3260>>, <<3263, 3263>>,
     <<3270, 3270>>, <<3276, 3277>>, <<3298, 3299>>, <<3328, 3329>>,
     <<3387, 3388>>, <<3393, 3396>>, <<3405, 3405>>, <<3426, 3427>>,
     <<3457, 3457>>, <<3530, 3530>>, <<3538, 3540>>, <<3542, 3542>>,
     <<3633, 3633>>, <<3636, 3642>>, <<3654, 3662>>, <<3761, 3761>>,
     <<3764, 3772>>, <<3782, 3782>>, <<3784, 3789>>, <<3864, 3865>>,
     <<3893, 3893>>, <<3895, 3895>>, <<3897, 3897>>, <<3953, 3966>>,
     <<3968, 3972>>, <<3974, 3975>>, <<3981, 3991>>, <<3993, 4028>>,
     <<4038, 4038>>, <<4141, 4144>>, <<4146, 4151>>, <<4153, 4154>>,
     <<4157, 4158>>, <<4184, 4185>>, <<4190, 4192>>, <<4209, 4212>>,
     <<4226, 4226>>, <<4229, 4230>>, <<4237, 4237>>, <<4253, 4253>>,
     <<4348, 4348>>, <<4957, 4959>>, <<5906, 5908>>, <<5938, 5939>>,
     <<5970, 5971>>, <<6002, 6003>>, <<6068, 6069>>, <<6071, 6077>>,
     <<6086, 6086>>, <<6089, 6099>>, <<6103, 6103>>, <<6109, 6109>>,
     <<6155, 6159>>, <<6211, 6211>>, <<6277, 6278>>, <<6313, 6313>>,
     <<6432, 6434>>, <<6439, 6440>>, <<6450, 6450>>, <<6457, 6459>>,
     <<6679, 6680>>, <<6683, 6683>>, <<6742, 6742>>, <<6744, 6750>>,
     <<6752, 6752>>, <<6754, 6754>>, <<6757, 6764>>, <<6771, 6780>>,
     <<6783, 6783>>, <<6823, 6823>>, <<6832, 6862>>, <<6912, 6915>>,
     <<6964, 6964>>, <<6966, 6970>>, <<6972, 6972>>, <<6978, 6978>>,
     <<7019, 7027>>, <<7040, 7041>>, <<7074, 7077>>, <<7080, 7081>>,
     <<7083, 7085>>, <<7142, 7142>>, <<7144, 7145>>, <<7149, 7149>>,
     <<7151, 7153>>, <<7212, 7219>>, <<7222, 7223>>, <<7288, 7293>>,
     <<7376, 7378>>, <<7380, 7392>>, <<7394, 7400>>, <<7405, 7405>>,
     <<7412, 7412>>, <<7416, 7417>>, <<7468, 7530>>, <<7544, 7544>>,
     <<7579, 7679>>, <<8125, 8125>>, <<8127, 8129>>, <<8141, 8143>>,
     <<8157, 8159>>, <<8173, 8175>>, <<8189, 8190>>, <<8203, 8207>>,
     <<8216, 8217>>, <<8228, 8228>>, <<8231, 8231>>, <<8234, 8238>>,
     <<8288, 8292>>, <<8294, 8303>>, <<8305, 8305>>, <<8319, 8319>>,
     <<8336, 8348>>, <<8400, 8432>>, <<11388, 11389>>, <<11503, 11505>>,
     <<11631, 11631>>, <<11647, 11647>>, <<11744, 11775>>, <<11823,
     11823>>, <<12293, 12293>>, <<12330, 12333>>, <<12337, 12341>>,
     <<12347, 12347>>, <<12441, 12446>>, <<12540, 12542>>, <<40981,
     40981>>, <<42232, 42237>>, <<42508, 42508>>, <<42607, 42610>>,
     <<42612, 42621>>, <<42623, 42623>>, <<42652, 42655>>, <<42736,
     42737>>, <<42752, 42785>>, <<42864, 42864>>, <<42888, 42890>>,
     <<42994, 42996>>, <<43000, 43001>>, <<43010, 43010>>, <<43014,
     43014>>, <<43019, 43019>>, <<43045, 43046>>, <<43052, 43052>>,
     <<43204, 43205>>, <<43232, 43249>>, <<43263, 43263>>, <<43302,
     43309>>, <<43335, 43345>>, <<43392, 43394>>, <<43443, 43443>>,
     <<43446, 43449>>, <<43452, 43453>>, <<43471, 43471>>, <<43493,
     43494>>, <<43561, 43566>>, <<43569, 43570>>, <<43573, 43574>>,
     <<43587, 43587>>, <<43596, 43596>>, <<43632, 43632>>, <<43644,
     43644>>, <<43696, 43696>>, <<43698, 43700>>, <<43703, 43704>>,
     <<43710, 43711>>, <<43713, 43713>>, <<43741, 43741>>, <<43756,
     43757>>, <<43763, 43764>>, <<43766, 43766>>, <<43867, 43871>>,
     <<43881, 43883>>, <<44005, 44005>>, <<44008, 44008>>, <<44013,
     44013>>, <<64286, 64286>>, <<64434, 64450>>, <<65024, 65039>>,
     <<65043, 65043>>, <<65056, 65071>>, <<65106, 65106>>, <<65109,
     65109>>, <<65279, 65279>>, <<65287, 65287>>, <<65294, 65294>>,
     <<65306, 65306>>, <<65342, 65342>>, <<65344, 65344>>, <<65392,
     65392>>, <<65438, 65439>>, <<65507, 65507>>, <<65529, 65531>>,
     <<66045, 66045>>, <<66272, 66272>>, <<66422, 66426>>, <<67456,
     67461>>, <<67463, 67504>>, <<67506, 67514>>, <<68097, 68099>>,
     <<68101, 68102>>, <<68108, 68111>>, <<68152, 68154>>, <<68159,
     68159>>, <<68325, 68326>>, <<68900, 68903>>, <<69291, 69292>>,
     <<69446, 69456>>, <<69506, 69509>>, <<69633, 69633>>, <<69688,
     69702>>, <<69744, 69744>>, <<69747, 69748>>, <<69759, 69761>>,
     <<69811, 69814>>, <<69817, 69818>>, <<69821, 69821>>, <<69826,
     69826>>, <<69837, 69837>>, <<69888, 69890>>, <<69927, 69931>>,
     <<69933, 69940>>, <<70003, 70003>>, <<70016, 70017>>, <<70070,
     70078>>, <<70089, 70092>>, <<70095, 70095>>, <<70191, 70193>>,
     <<70196, 70196>>, <<70198, 70199>>, <<70206, 70206>>, <<70367,
     70367>>, <<70371, 70378>>, <<70400, 70401>>, <<70459, 70460>>,
     <<70464, 70464>>, <<70502, 70508>>, <<70512, 70516>>, <<70712,
     70719>>, <<70722, 70724>>, <<70726, 70726>>, <<70750, 70750>>,
     <<70835, 70840>>, <<70842, 70842>>, <<70847, 70848>>, <<70850,
     70851>>, <<71090, 71093>>, <<71100, 71101>>, <<71103, 71104>>,
     <<71132, 71133>>, <<71219, 71226>>, <<71229, 71229>>, <<71231,
     71232>>, <<71339, 71339>>, <<71341, 71341>>, <<71344, 71349>>,
     <<71351, 71351>>, <<71453, 71455>>, <<71458, 71461>>, <<71463,
     71467>>, <<71727, 71735>>, <<71737, 71738>>, <<71995, 71996>>,
     <<71998, 71998>>, <<72003, 72003>>, <<72148, 72151>>, <<72154,
     72155>>, <<72160, 72160>>, <<72193, 72202>>, <<72243, 72248>>,
     <<72251, 72254>>, <<72263, 72263>>, <<72273, 72278>>, <<72281,
     72283>>, <<72330, 72342>>, <<72344, 72345>>, <<72752, 72758>>,
     <<72760, 72765>>, <<72767, 72767>>, <<72850, 72871>>, <<72874,
     72880>>, <<72882, 72883>>, <<72885, 72886>>, <<73009, 73014>>,
     <<73018, 73018>>, <<73020, 73021>>, <<73023, 73029>>, <<73031,
     73031>>, <<73104, 73105>>, <<73109, 73109>>, <<73111, 73111>>,
     <<73459, 73460>>, <<78896, 78904>>, <<92912, 92916>>, <<92976,
     92982>>, <<92992, 92995>>, <<94031, 94031>>, <<94095, 94111>>,
     <<94176, 94177>>, <<94179, 94180>>, <<110576, 110579>>, <<110581,
     110587>>, <<110589, 110590>>, <<113821, 113822>>, <<113824, 113827>>,
     <<118528, 118573>>, <<118576, 118598>>, <<119143, 119145>>, <<119155,
     119170>>, <<119173, 119179>>, <<119210, 119213>>, <<119362, 119364>>,
     <<121344, 121398>>, <<121403, 121452>>, <<121461, 121461>>, <<121476,
     121476>>, <<121499, 121503>>, <<121505, 121519>>, <<122880, 122886>>,
     <<122888, 122904>>, <<122907, 122913>>, <<122915, 122916>>, <<122918,
     122922>>, <<123184, 123197>>, <<123566, 123566>>, <<123628, 123631>>,
     <<125136, 125142>>, <<125252, 125259>>, <<127995, 127999>>, <<917505,
     917505>>, <<917536, 917631>>, <<917760, 917999>> }

CaseIgnorable(c) == \E r \in CaseIgnorableRanges : r[1] <= c /\ c <= r[2]

RECURSIVE LStrip(_)
LStrip(s) ==
  IF s # <<>> /\ Head(s) \in Whitespace THEN LStrip(Tail(s)) ELSE s

RECURSIVE RStrip(_)
RStrip(s) ==
  IF s # <<>> /\ s[Len(s)] \in Whitespace
    THEN RStrip(SubSeq(s, 1, Len(s) - 1))
    ELSE s

Strip(s) == RStrip(LStrip(s))

\* Only U+0020 is replaced, by U+005F.
Replace(s) == [i \in 1..Len(s) |-> IF s[i] = 32 THEN 95 ELSE s[i]]

\* The nearest position at or before j (at or after j) whose character is
\* not case-ignorable, 0 when there is none.
RECURSIVE SkipIgnorableBack(_, _)
SkipIgnorableBack(s, j) ==
  IF j < 1 THEN 0
  ELSE IF CaseIgnorable(s[j]) THEN SkipIgnorableBack(s, j - 1)
  ELSE j

RECURSIVE SkipIgnorableForward(_, _)
SkipIgnorableForward(s, j) ==
  IF j > Len(s) THEN 0
  ELSE IF CaseIgnorable(s[j]) THEN SkipIgnorableForward(s, j + 1)
  ELSE j

\* A capital sigma at position i is final when a cased character precedes it
\* and none follows it, case-ignorable characters being skipped.
FinalSigma(s, i) ==
  LET b == SkipIgnorableBack(s, i - 1)
      a == SkipIgnorableForward(s, i + 1)
  IN /\ b # 0 /\ Cased(s[b])
     /\ (a = 0 \/ ~Cased(s[a]))

\* The lower-case form of the character at position i of s: the ASCII
\* letters directly, U+03A3 by its context, U+0130 to two characters, the
\* others by the table.
LowerChar(s, i) ==
  IF s[i] < 128 THEN <<IF s[i] \in 65..90 THEN s[i] + 32 ELSE s[i]>>
  ELSE IF s[i] = 931 THEN <<IF FinalSigma(s, i) THEN 962 ELSE 963>>
  ELSE IF s[i] = 304 THEN <<105, 775>>
  ELSE <<s[i] + LowerDelta(s[i])>>

RECURSIVE LowerFrom(_, _)
LowerFrom(s, i) ==
  IF i > Len(s) THEN <<>> ELSE LowerChar(s, i) \o LowerFrom(s, i + 1)

Lower(s) == LowerFrom(s, 1)

NormalizeName(s) == Lower(Replace(Strip(s)))

NormalizeColumns(header) == [i \in 1..Len(header) |-> NormalizeName(header[i])]

(* --------------------------- data frames ------------------------------- *)

\* Number of columns of the frame carrying the given name.
ColCount(columns, name) == Cardinality({i \in 1..Len(columns) : columns[i] = name})

\* df[name].unique(): df[name] raises KeyError when no column carries the
\* name and is a DataFrame, which has no .unique(), when several do.
LookupError(columns, name) ==
  IF ColCount(columns, name) = 0 THEN "KeyError"
  ELSE IF ColCount(columns, name) > 1 THEN "AttributeError"
  ELSE "none"

ColIndex(columns, name) == CHOOSE i \in 1..Len(columns) : columns[i] = name

\* The positions of the columns carrying the name, in column order.
RECURSIVE ColPositions(_, _, _)
ColPositions(columns, name, i) ==
  IF i > Len(columns) THEN <<>>
  ELSE (IF columns[i] = name THEN <<i>> ELSE <<>>) \o ColPositions(columns, name, i + 1)

Cell(frame, row, name) == row[ColIndex(frame.columns, name)]

Empty(frame) == Len(frame.rows) = 0

RECURSIVE SelectRows(_, _, _)
SelectRows(rows, ci, value) ==
  IF rows = <<>> THEN <<>>
  ELSE IF Head(rows)[ci] = value
    THEN <<Head(rows)>> \o SelectRows(Tail(rows), ci, value)
    ELSE SelectRows(Tail(rows), ci, value)

\* frame[frame[name] == value]: a new frame with the matching rows in order.
Where(frame, name, value) ==
  [columns |-> frame.columns,
   rows |-> SelectRows(frame.rows, ColIndex(frame.columns, name), value)]

Unique(frame, name) == {Cell(frame, frame.rows[i], name) : i \in 1..Len(frame.rows)}

\* Python truthiness of the selectbox results: None, 0 and "" are falsy.
TruthyCountry(sel) == sel # <<>> /\ sel[1] # ""

TruthyYear(sel) == sel # <<>> /\ sel[1] # 0

(* ------------------------------ float64 -------------------------------- *)
(* The means are float64.  A float64 is [sign, man, exp], worth            *)
(* sign * man * 2^exp, man being a natural number of exactly MantissaBits  *)
(* bits; zero has man = 0 and NaN has sign = 0.  A natural number is the   *)
(* sequence of its digits in base 2^LimbBits, the least significant first, *)
(* without leading zero digit, so that 0 is <<>>.  Every operation is      *)
(* rounded to the nearest float64, ties to even.  Infinities, subnormal    *)
(* numbers and the sign of zero are left out: tables of decimals with two  *)
(* places do not produce them.                                             *)

\* Bits of a float64 significand, the leading one included.
MantissaBits == 53

LimbBits == 12

Base == 2^LimbBits

\* The element of a one-element set.  The({e : x \in {v}}) is e with x the
\* value of v, computed once however often e uses x.
The(S) == CHOOSE r \in S : TRUE

RECURSIVE Digits(_)
Digits(n) == IF n = 0 THEN <<>> ELSE <<n % Base>> \o Digits(n \div Base)

RECURSIVE Trim(_)
Trim(a) ==
  IF a # <<>> /\ a[Len(a)] = 0 THEN Trim(SubSeq(a, 1, Len(a) - 1)) ELSE a

Digit(a, i) == IF i <= Len(a) THEN a[i] ELSE 0

RECURSIVE AddFrom(_, _, _, _)
AddFrom(a, b, i, carry) ==
  IF i > Len(a) /\ i > Len(b) THEN (IF carry = 0 THEN <<>> ELSE <<carry>>)
  ELSE LET x == Digit(a, i) + Digit(b, i) + carry
       IN <<x % Base>> \o AddFrom(a, b, i + 1, x \div Base)

AddNat(a, b) == AddFrom(a, b, 1, 0)

RECURSIVE SubFrom(_, _, _, _)
SubFrom(a, b, i, borrow) ==
  IF i > Len(a) THEN <<>>
  ELSE LET x == Digit(a, i) - Digit(b, i) - borrow
       IN <<x % Base>> \o SubFrom(a, b, i + 1, IF x < 0 THEN 1 ELSE 0)

\* a - b, for a >= b.
SubNat(a, b) == Trim(SubFrom(a, b, 1, 0))

RECURSIVE CompareFrom(_, _, _)
CompareFrom(a, b, i) ==
  IF i = 0 THEN 0
  ELSE IF a[i] # b[i] THEN (IF a[i] < b[i] THEN 0 - 1 ELSE 1)
  ELSE CompareFrom(a, b, i - 1)

\* -1, 0 or 1 as a is less than, equal to or greater than b.
CompareNat(a, b) ==
  IF Len(a) # Len(b) THEN (IF Len(a) < Len(b) THEN 0 - 1 ELSE 1)
  ELSE CompareFrom(a, b, Len(a))

RECURSIVE MulFrom(_, _, _, _)
MulFrom(a, f, i, carry) ==
  IF i > Len(a) THEN (IF carry = 0 THEN <<>> ELSE <<carry>>)
  ELSE LET x == a[i] * f + carry
       IN <<x % Base>> \o MulFrom(a, f, i + 1, x \div Base)

\* a * 2^s.
ShiftLeft(a, s) ==
  IF a = <<>> THEN <<>>
  ELSE [i \in 1..(s \div LimbBits) |-> 0] \o MulFrom(a, 2^(s % LimbBits), 1, 0)

\* Long division of the digits i, ..., 1 of a by m, r being the remainder
\* left by the digits above: the remainder followed by the quotient digits.
RECURSIVE DivFrom(_, _, _, _)
DivFrom(a, m, i, r) ==
  IF i = 0 THEN <<r>>
  ELSE Append(DivFrom(a, m, i - 1, (r * Base + a[i]) % m), (r * Base + a[i]) \div m)

\* Quotient q and remainder r of a by the integer m, 0 < m < 2^31 / Base.
DivNat(a, m) ==
  The({[q |-> Trim(Tail(d)), r |-> Head(d)] : d \in {DivFrom(a, m, Len(a), 0)}})

RECURSIVE BitLength(_)
BitLength(n) == IF n = 0 THEN 0 ELSE 1 + BitLength(n \div 2)

BitLen(a) ==
  IF a = <<>> THEN 0 ELSE LimbBits * (Len(a) - 1) + BitLength(a[Len(a)])

\* floor(a / 2^t), and whether a one was shifted out.
ShiftRight(a, t) ==
  The({[q |-> d.q, sticky |-> d.r # 0 \/ \E i \in 1..(t \div LimbBits) : a[i] # 0] :
       d \in {DivNat(SubSeq(a, (t \div LimbBits) + 1, Len(a)), 2^(t % LimbBits))}})

Odd(a) == a # <<>> /\ a[1] % 2 = 1

Zero == [sign |-> 1, man |-> <<>>, exp |-> 0]

NaN == [sign |-> 0, man |-> <<>>, exp |-> 0]

\* n rounded to MantissaBits bits, ties to even, t > 0 being the number of
\* bits to drop and sticky telling that a nonzero fraction follows n: the
\* rounded number, which has MantissaBits or MantissaBits + 1 bits.  cut is
\* n without its last t - 1 bits, so its last bit is the first one dropped.
RoundOff(n, t, sticky) ==
  The({IF Odd(cut.q) /\ (cut.sticky \/ sticky \/ Odd(DivNat(cut.q, 2).q))
         THEN AddNat(DivNat(cut.q, 2).q, <<1>>)
         ELSE DivNat(cut.q, 2).q :
       cut \in {ShiftRight(n, t - 1)}})

\* m of MantissaBits or MantissaBits + 1 bits as a float64 significand with
\* its exponent.
Normal(sign, m, x) ==
  IF BitLen(m) > MantissaBits
    THEN [sign |-> sign, man |-> DivNat(m, 2).q, exp |-> x + 1]
    ELSE [sign |-> sign, man |-> m, exp |-> x]

\* The float64 nearest to sign * (n + f) * 2^x, ties to even, where
\* 0 <= f < 1 and f # 0 exactly when sticky; n has more than MantissaBits
\* bits when sticky.
Round(sign, n, x, sticky) ==
  IF n = <<>> THEN Zero
  ELSE IF BitLen(n) <= MantissaBits
    THEN [sign |-> sign, man |-> ShiftLeft(n, MantissaBits - BitLen(n)),
          exp |-> x + BitLen(n) - MantissaBits]
  ELSE The({Normal(sign, m, x + BitLen(n) - MantissaBits) :
            m \in {RoundOff(n, BitLen(n) - MantissaBits, sticky)}})

\* The bits by which a significand is shifted left before its division by
\* m, so that the quotient has more than MantissaBits bits.
Scaling(m) == MantissaBits + 2 + BitLength(m)

\* The float64 nearest to sign * n * 2^x / m, for a natural n and an
\* integer m > 0.
Quotient(sign, n, x, m) ==
  The({Round(sign, d.q, x - Scaling(m), d.r # 0) :
       d \in {DivNat(ShiftLeft(n, Scaling(m)), m)}})

\* The float64 read from a CSV field worth v / den.
Float(v, den) ==
  The({Quotient(IF v < 0 THEN 0 - 1 ELSE 1, n, 0, den) :
       n \in {Digits(IF v < 0 THEN 0 - v ELSE v)}})

\* The sum of the float64 of sign fs and significand a and the one of sign
\* gs and significand b, both at exponent x.
AddAligned(fs, a, gs, b, x) ==
  The({Round(IF fs = gs \/ CompareNat(a, b) > 0 THEN fs ELSE gs, n, x, FALSE) :
       n \in {IF fs = gs THEN AddNat(a, b)
              ELSE IF CompareNat(a, b) > 0 THEN SubNat(a, b)
              ELSE SubNat(b, a)}})

\* The sum of two float64 values that are neither zero nor NaN, x being the
\* lesser of their exponents.
AddNonZero(f, g, x) ==
  The({AddAligned(f.sign, a, g.sign, b, x) :
       a \in {ShiftLeft(f.man, f.exp - x)}, b \in {ShiftLeft(g.man, g.exp - x)}})

\* float64 addition.
Add(f0, g0) ==
  The({IF f.sign = 0 \/ g.sign = 0 THEN NaN
       ELSE IF f.man = <<>> THEN g
       ELSE IF g.man = <<>> THEN f
       ELSE AddNonZero(f, g, IF f.exp < g.exp THEN f.exp ELSE g.exp) :
       f \in {f0}, g \in {g0}})

\* float64 division by a count n > 0.
Div(f0, n0) ==
  The({IF f.sign = 0 THEN NaN ELSE Quotient(f.sign, f.man, f.exp, n) :
       f \in {f0}, n \in {n0}})

Signum(f) == IF f.man = <<>> THEN 0 ELSE f.sign

CompareMagnitude(f, g) ==
  IF f.exp # g.exp THEN (IF f.exp < g.exp THEN 0 - 1 ELSE 1)
  ELSE CompareNat(f.man, g.man)

\* -1, 0 or 1 as f is less than, equal to or greater than g, neither NaN.
Compare(f, g) ==
  IF Signum(f) # Signum(g) THEN (IF Signum(f) < Signum(g) THEN 0 - 1 ELSE 1)
  ELSE Signum(f) * CompareMagnitude(f, g)

\* f > g and f <= g; every comparison with NaN is false.
GreaterThan(f, g) == f.sign # 0 /\ g.sign # 0 /\ Compare(f, g) > 0

LessEqual(f, g) == f.sign # 0 /\ g.sign # 0 /\ Compare(f, g) <= 0

(* ------------------------------ means ---------------------------------- *)

\* The units of the cells: hundredths of a degree, whole ppm.
TempScale == 100

Co2Scale == 1

\* acc + a[i] + ... + a[j], added in this order.
RECURSIVE SumFrom(_, _, _, _)
SumFrom(a, i, j, acc) ==
  IF i > j THEN acc ELSE SumFrom(a, i + 1, j, Add(acc, a[i]))

\* acc + a[i] + a[i + 8] + ... up to position last.
RECURSIVE Lane(_, _, _, _)
Lane(a, i, last, acc) ==
  IF i > last THEN acc ELSE Lane(a, i + 8, last, Add(acc, a[i]))

\* The running sum that starts at a[lo + j] and takes every eighth element
\* of the full blocks of 8 among a[lo + 1 .. lo + n].
Unrolled(a, lo, n, j) == Lane(a, lo + j + 8, lo + n - (n % 8), a[lo + j])

\* numpy's sum of the n <= 128 elements a[lo + 1 .. lo + n]: in order under
\* 8 elements; else eight running sums over the full blocks of 8, combined
\* in pairs, then the remaining elements in order.
BlockSum(a, lo, n) ==
  IF n < 8 THEN SumFrom(a, lo + 1, lo + n, Zero)
  ELSE SumFrom(a, lo + n - (n % 8) + 1, lo + n,
               Add(Add(Add(Unrolled(a, lo, n, 1), Unrolled(a, lo, n, 2)),
                       Add(Unrolled(a, lo, n, 3), Unrolled(a, lo, n, 4))),
                   Add(Add(Unrolled(a, lo, n, 5), Unrolled(a, lo, n, 6)),
                       Add(Unrolled(a, lo, n, 7), Unrolled(a, lo, n, 8)))))

\* Where numpy splits more than 128 elements: half of n, down to a multiple
\* of 8.
Half(n) == (n \div 2) - ((n \div 2) % 8)

\* numpy's sum of the float64 values a[lo + 1 .. lo + n]: above 128 elements
\* the two parts apart.
RECURSIVE PairwiseSum(_, _, _)
PairwiseSum(a, lo, n) ==
  IF n <= 128 THEN BlockSum(a, lo, n)
  ELSE Add(PairwiseSum(a, lo, Half(n)), PairwiseSum(a, lo + Half(n), n - Half(n)))

\* The column as float64 values, a missing cell counting as 0.0.
FillNa(rows, ci, den) ==
  [i \in 1..Len(rows) |->
     IF rows[i][ci] = <<>> THEN Zero ELSE Float(rows[i][ci][1], den)]

CountNotNa(rows, ci) == Cardinality({i \in 1..Len(rows) : rows[i][ci] # <<>>})

\* Series.mean(): skipna=True; the sum of the column, started from 0.0 and
\* with the missing cells at 0.0, divided by the number of cells that are
\* not missing, NaN when there is none.
Mean(rows, ci, den) ==
  The({IF count = 0 THEN NaN
       ELSE Div(Add(Zero, PairwiseSum(values, 0, Len(values))), count) :
       values \in {FillNa(rows, ci, den)}, count \in {CountNotNa(rows, ci)}})

\* frame[name].mean(): one mean per column carrying the name; a scalar when
\* there is exactly one such column, a Series of means otherwise.
Means(frame, name, den) ==
  LET at == ColPositions(frame.columns, name, 1)
  IN [k \in 1..Len(at) |-> Mean(frame.rows, at[k], den)]

\* The literals 1.5, 1.0 and 400 of lines 74 and 76 as float64.
HighTemp == Float(TempHigh, TempScale)

MidTemp == Float(TempMid, TempScale)

LimitCo2 == Float(Co2Limit, Co2Scale)

\* The second rule with a strict CO2 bound: a boundary slip of line 76.
CropCategoryStrictCo2(temp, co2) ==
  IF GreaterThan(temp, HighTemp) /\ GreaterThan(co2, LimitCo2) THEN Wheat
  ELSE IF /\ GreaterThan(temp, MidTemp)
          /\ co2.sign # 0 /\ Compare(co2, LimitCo2) < 0 THEN Rice
  ELSE Potatoes

CropCategory(temp, co2) ==
  IF GreaterThan(temp, HighTemp) /\ GreaterThan(co2, LimitCo2) THEN Wheat
  ELSE IF GreaterThan(temp, MidTemp) /\ LessEqual(co2, LimitCo2) THEN Rice
  ELSE Potatoes

(* ------------------------------ inputs --------------------------------- *)

\* ' Country'
H_Country == <<32, 67, 111, 117, 110, 116, 114, 121>>

\* 'country' followed by a tab
H_country2 == <<99, 111, 117, 110, 116, 114, 121, 9>>

\* 'YEAR' followed by a no-break space
H_Year == <<89, 69, 65, 82, 160>>

\* 'Temperature Anomaly'
H_Temp ==
  <<84, 101, 109, 112, 101, 114, 97, 116, 117, 114, 101, 32, 65, 110, 111, 109, 97, 108, 121>>

\* 'Average CO2'
H_Co2 == <<65, 118, 101, 114, 97, 103, 101, 32, 67, 79, 50>>

Col(name, kind) == [name |-> name, kind |-> kind]

FullLayout ==
  <<Col(H_Country, "country"), Col(H_Year, "year"),
    Col(H_Temp, "temperature_anomaly"), Col(H_Co2, "average_co2")>>

Without(layout, k) == [i \in 1..(Len(layout) - 1) |-> IF i < k THEN layout[i] ELSE layout[i + 1]]

\* The complete header, the header with one required column left out, and
\* the headers in which two names of one column differ only in case and
\* whitespace.
Layouts ==
  {FullLayout} \cup {Without(FullLayout, k) : k \in 1..4}
  \cup {<<Col(H_Country, "country"), Col(H_country2, "country")>> \o Tail(FullLayout),
        FullLayout \o <<Col(TEMPERATURE_ANOMALY, "temperature_anomaly")>>,
        FullLayout \o <<Col(AVERAGE_CO2, "average_co2")>>}

Countries == {"A", "B"}

Years == {0, 1}

Measures ==
  { [temperature_anomaly |-> <<>>, average_co2 |-> <<402>>],
    [temperature_anomaly |-> <<100>>, average_co2 |-> <<400>>],
    [temperature_anomaly |-> <<200>>, average_co2 |-> <<402>>],
    [temperature_anomaly |-> <<200>>, average_co2 |-> <<>>] }

BoundaryMeasures ==
  { [temperature_anomaly |-> <<150>>, average_co2 |-> <<400>>],
    [temperature_anomaly |-> <<151>>, average_co2 |-> <<401>>],
    [temperature_anomaly |-> <<120>>, average_co2 |-> <<300>>],
    [temperature_anomaly |-> <<50>>, average_co2 |-> <<200>>],
    [temperature_anomaly |-> <<200>>, average_co2 |-> <<400>>],
    [temperature_anomaly |-> <<100>>, average_co2 |-> <<401>>] }

Record(c, y, m) ==
  [country |-> c, year |-> y,
   temperature_anomaly |-> m.temperature_anomaly, average_co2 |-> m.average_co2]

RowPool == {Record(c, y, m) : c \in Countries, y \in Years, m \in Measures}

BoundaryRows == {Record("A", 1, m) : m \in BoundaryMeasures}

\* Two-row tables whose temperatures add up to 3.00 as decimals: the float64
\* sum of -2.98 and 5.98 is 3.0000000000000004, that of 1.49 and 1.51 is 3.0.
RoundingTables ==
  { <<Record("A", 1, [temperature_anomaly |-> <<0 - 298>>, average_co2 |-> <<401>>]),
      Record("A", 1, [temperature_anomaly |-> <<598>>, average_co2 |-> <<401>>])>>,
    <<Record("A", 1, [temperature_anomaly |-> <<149>>, average_co2 |-> <<401>>]),
      Record("A", 1, [temperature_anomaly |-> <<151>>, average_co2 |-> <<401>>])>> }

Tables ==
  UNION {[1..k -> RowPool] : k \in 0..MaxRows}
  \cup {<<r>> : r \in BoundaryRows}
  \cup RoundingTables

\* The CSV of a table under a header layout: one cell per header column.
Csv(layout, table) ==
  [header |-> [i \in 1..Len(layout) |-> layout[i].name],
   rows |-> [r \in 1..Len(table) |->
               [i \in 1..Len(layout) |-> table[r][layout[i].kind]]]]

NoFrame == [columns |-> <<>>, rows |-> <<>>]

Init ==
  /\ \E layout \in Layouts, table \in Tables : uploaded_file = Csv(layout, table)
  /\ df = NoFrame
  /\ pc = "start"
  /\ error = "none"
  /\ selected_country = <<>>
  /\ selected_year = <<>>
  /\ filtered_df = NoFrame
  /\ predicted = <<>>
  /\ output = <<>>
  /\ fig = "unbound"
  /\ map_data = NoFrame
  /\ plot_type = ""
  /\ field_options = <<>>
  /\ custom_chart = ""

(* ------------------------------ actions -------------------------------- *)

\* Lines 42-45: read the CSV and normalise the column names.
LoadAndNormalize ==
  /\ pc = "start" /\ error = "none"
  /\ df' = [columns |-> NormalizeColumns(uploaded_file.header),
            rows |-> uploaded_file.rows]
  /\ pc' = "loaded"
  /\ UNCHANGED <<uploaded_file, error, selected_country, selected_year,
                 filtered_df, predicted, output, fig, map_data, plot_type,
                 field_options, custom_chart>>

\* Lines 49-50: the country selector over [None] + sorted distinct countries.
SelectCountry ==
  /\ pc = "loaded" /\ error = "none"
  /\ IF LookupError(df.columns, COUNTRY) # "none"
       THEN /\ error' = LookupError(df.columns, COUNTRY)
            /\ UNCHANGED <<pc, selected_country>>
       ELSE /\ \E c \in {<<>>} \cup {<<v>> : v \in Unique(df, COUNTRY)} :
                 selected_country' = c
            /\ pc' = "country"
            /\ UNCHANGED error
  /\ UNCHANGED <<uploaded_file, df, selected_year, filtered_df, predicted,
                 output, fig, map_data, plot_type, field_options, custom_chart>>

\* Lines 52-53: the year selector over [None] + sorted distinct years.
SelectYear ==
  /\ pc = "country" /\ error = "none"
  /\ IF LookupError(df.columns, YEAR) # "none"
       THEN /\ error' = LookupError(df.columns, YEAR)
            /\ UNCHANGED <<pc, selected_year>>
       ELSE /\ \E y \in {<<>>} \cup {<<v>> : v \in Unique(df, YEAR)} :
                 selected_year' = y
            /\ pc' = "year"
            /\ UNCHANGED error
  /\ UNCHANGED <<uploaded_file, df, selected_country, filtered_df, predicted,
                 output, fig, map_data, plot_type, field_options, custom_chart>>

\* Lines 56-60: each filter is applied only when its selection is truthy.
ApplyFilters ==
  /\ pc = "year" /\ error = "none"
  /\ LET copy == [columns |-> df.columns, rows |-> df.rows]
         byCountry == IF TruthyCountry(selected_country)
                        THEN Where(copy, COUNTRY, selected_country[1])
                        ELSE copy
         byYear == IF TruthyYear(selected_year)
                     THEN Where(byCountry, YEAR, selected_year[1])
                     ELSE byCountry
     IN filtered_df' = byYear
  /\ pc' = "filtered"
  /\ UNCHANGED <<uploaded_file, df, error, selected_country, selected_year,
                 predicted, output, fig, map_data, plot_type, field_options,
                 custom_chart>>

\* Lines 63-81: the header, then for a non-empty filtered frame the two
\* means (lines 65-66), their two lines (69-70), the subheader and the crop
\* line (73-79), or else the warning.  predicted holds predicted_temp and
\* predicted_co2 as far as they were bound.  A mean that is a Series cannot
\* be formatted with :.2f (TypeError).
Part1 ==
  /\ pc = "filtered" /\ error = "none"
  /\ IF Empty(filtered_df)
       THEN /\ output' = output \o <<"header1", "warning1">>
            /\ pc' = "part1"
            /\ UNCHANGED <<error, predicted>>
     ELSE IF ColCount(filtered_df.columns, TEMPERATURE_ANOMALY) = 0
       THEN /\ error' = "KeyError"
            /\ output' = output \o <<"header1">>
            /\ UNCHANGED <<pc, predicted>>
     ELSE IF ColCount(filtered_df.columns, AVERAGE_CO2) = 0
       THEN /\ error' = "KeyError"
            /\ predicted' = <<Means(filtered_df, TEMPERATURE_ANOMALY, TempScale)>>
            /\ output' = output \o <<"header1">>
            /\ UNCHANGED pc
     ELSE /\ predicted' = <<Means(filtered_df, TEMPERATURE_ANOMALY, TempScale),
                            Means(filtered_df, AVERAGE_CO2, Co2Scale)>>
          /\ IF Len(predicted'[1]) # 1
               THEN /\ error' = "TypeError"
                    /\ output' = output \o <<"header1">>
                    /\ UNCHANGED pc
             ELSE IF Len(predicted'[2]) # 1
               THEN /\ error' = "TypeError"
                    /\ output' = output \o <<"header1", "predicted_temp">>
                    /\ UNCHANGED pc
             ELSE /\ output' = output \o
                       <<"header1", "predicted_temp", "predicted_co2",
                         "subheader1",
                         CropCategory(predicted'[1][1], predicted'[2][1])>>
                  /\ pc' = "part1"
                  /\ UNCHANGED error
  /\ UNCHANGED <<uploaded_file, df, selected_country, selected_year,
                 filtered_df, fig, map_data, plot_type, field_options,
                 custom_chart>>

\* Lines 84-133: the dual-axis figure over the whole table.  fig is bound at
\* line 86; df[name] raises KeyError at lines 90-100 for a missing column.
Part2 ==
  /\ pc = "part1" /\ error = "none"
  /\ IF ~Empty(df)
       THEN /\ fig' = "dual-axis"
            /\ IF \E c \in {YEAR, TEMPERATURE_ANOMALY, AVERAGE_CO2} :
                    ColCount(df.columns, c) = 0
                 THEN /\ error' = "KeyError"
                      /\ output' = output \o <<"header2">>
                      /\ UNCHANGED pc
                 ELSE /\ output' = output \o <<"header2", "chart:dual-axis">>
                      /\ pc' = "part2"
                      /\ UNCHANGED error
       ELSE /\ output' = output \o <<"header2", "warning2">>
            /\ pc' = "part2"
            /\ UNCHANGED <<error, fig>>
  /\ UNCHANGED <<uploaded_file, df, selected_country, selected_year,
                 filtered_df, predicted, map_data, plot_type, field_options,
                 custom_chart>>

\* Line 142-144: the label of a row of the map frame.
HighlightLabel(country, selected) ==
  IF selected # <<>> /\ country = selected[1]
    THEN "Selected Country"
    ELSE "Other Countries"

\* frame['highlight'] = labels: the column is appended, or overwritten when
\* the frame already has one, in the frame object itself.
SetHighlight(frame, selected) ==
  LET ci == ColIndex(frame.columns, COUNTRY)
      has == ColCount(frame.columns, HIGHLIGHT) > 0
      hi == IF has THEN ColIndex(frame.columns, HIGHLIGHT) ELSE Len(frame.columns) + 1
  IN [columns |-> IF has THEN frame.columns ELSE Append(frame.columns, HIGHLIGHT),
      rows |-> [r \in 1..Len(frame.rows) |->
                  [i \in 1..(IF has THEN Len(frame.columns) ELSE Len(frame.columns) + 1) |->
                     IF i = hi THEN HighlightLabel(frame.rows[r][ci], selected)
                     ELSE frame.rows[r][i]]]]

\* Lines 136-168: the map frame is a year-filtered copy when the year
\* selection is truthy and the table object itself otherwise; a non-empty map
\* frame gets the highlight column.
Part3 ==
  /\ pc = "part2" /\ error = "none"
  /\ LET isCopy == TruthyYear(selected_year)
         rows == IF isCopy THEN Where(df, YEAR, selected_year[1]) ELSE df
     IN IF ~Empty(rows)
          THEN /\ map_data' = SetHighlight(rows, selected_country)
               /\ df' = IF isCopy THEN df ELSE SetHighlight(rows, selected_country)
               /\ output' = output \o <<"header3", "chart:map">>
          ELSE /\ map_data' = rows
               /\ df' = df
               /\ output' = output \o <<"header3", "warning3">>
  /\ pc' = "part3"
  /\ UNCHANGED <<uploaded_file, error, selected_country, selected_year,
                 filtered_df, predicted, fig, plot_type, field_options,
                 custom_chart>>

\* Lines 172-192: the chart kind, which the closed selectbox of line 172
\* draws from its five options, and the field selectors over df.columns;
\* the if/elif chain has a branch for each of the five kinds and no else,
\* so it always rebinds fig; the final st.plotly_chart(fig).
Part4 ==
  /\ pc = "part3" /\ error = "none"
  /\ \E kind \in PlotTypes :
       /\ plot_type' = kind
       /\ field_options' = df.columns
       /\ fig' = kind
       /\ custom_chart' = fig'
       /\ output' = output \o <<"header4", "chart:custom">>
       /\ pc' = "done"
  /\ UNCHANGED <<uploaded_file, df, error, selected_country, selected_year,
                 filtered_df, predicted, map_data>>

Next ==
  \/ LoadAndNormalize
  \/ SelectCountry
  \/ SelectYear
  \/ ApplyFilters
  \/ Part1
  \/ Part2
  \/ Part3
  \/ Part4

Spec == Init /\ [][Next]_vars

(* ------------------------ vocabulary of the claims --------------------- *)

\* How far the run has come: the number of completed steps of the script.
StepsDone ==
  CASE pc = "start" -> 0
    [] pc = "loaded" -> 1
    [] pc = "country" -> 2
    [] pc = "year" -> 3
    [] pc = "filtered" -> 4
    [] pc = "part1" -> 5
    [] pc = "part2" -> 6
    [] pc = "part3" -> 7
    [] pc = "done" -> 8

Shown(item) == \E i \in 1..Len(output) : output[i] = item

CropsShown == {i \in 1..Len(output) : output[i] \in CropCategories}

UploadedColumns == NormalizeColumns(uploaded_file.header)

\* The filtered view as the specification defines it: the rows of the table
\* whose country equals the set country and whose year equals the set year,
\* a selection being set when it is not None.
RECURSIVE RowsWhere(_, _, _, _, _)
RowsWhere(rows, cc, country, yc, year) ==
  IF rows = <<>> THEN <<>>
  ELSE LET r == Head(rows)
           keep == /\ (country = <<>> \/ r[cc] = country[1])
                   /\ (year = <<>> \/ r[yc] = year[1])
       IN (IF keep THEN <<r>> ELSE <<>>) \o RowsWhere(Tail(rows), cc, country, yc, year)

FilteredView ==
  RowsWhere(uploaded_file.rows,
            ColIndex(UploadedColumns, COUNTRY), selected_country,
            ColIndex(UploadedColumns, YEAR), selected_year)

\* The rows of a frame cut back to the columns of the uploaded table.
UploadedCells(rows) ==
  [r \in 1..Len(rows) |-> SubSeq(rows[r], 1, Len(uploaded_file.header))]

(* -------------------------------- C1 ----------------------------------- *)

\* C1 (as claimed): once the filters are applied, the filtered frame holds
\* exactly the rows whose country equals the set country and whose year equals
\* the set year, in input order; a set filter (any value other than None,
\* year 0 included) always constrains.
C1_FilterByEquality ==
  StepsDone >= 4 => filtered_df.rows = FilteredView

(* -------------------------------- C2 ----------------------------------- *)

\* The pair of means (temp, co2), given in hundredths of a degree and ppm.
MeansAt(temp, co2) == <<<<Float(temp, TempScale)>>, <<Float(co2, Co2Scale)>>>>

BoundaryMeans == MeansAt(150, 400)

\* The thresholds of the rules: 1.5 and 1.0 degrees, 400 ppm.
Thresholds ==
  [high |-> Float(150, TempScale), mid |-> Float(100, TempScale),
   co2 |-> Float(400, Co2Scale)]

\* The examples of the claim other than (1.5, 400), with their crop lines.
CropExamples ==
  { <<MeansAt(151, 401), Wheat>>, <<MeansAt(120, 300), Rice>>,
    <<MeansAt(50, 200), Potatoes>> }

\* C2 (as claimed): for a non-empty filtered view exactly one crop line is
\* shown, chosen by the first matching rule, and in particular the means
\* (1.5, 400) give Potatoes.
C2_BoundaryGivesPotatoes ==
  (StepsDone >= 5 /\ predicted # <<>>) =>
     /\ Cardinality(CropsShown) = 1
     /\ (predicted = BoundaryMeans => Shown(Potatoes))

\* C2 (amended): for a non-empty filtered view exactly one crop line is shown:
\* Wheat when mean temperature > 1.5 and mean CO2 > 400; otherwise Rice when
\* mean temperature > 1.0 and mean CO2 <= 400; otherwise Potatoes.  (1.5, 400)
\* gives Rice, (1.51, 401) Wheat, (1.2, 300) Rice, (0.5, 200) Potatoes, and a
\* temperature above 1.5 with CO2 <= 400 gives Rice.
C2_CropByFirstMatch ==
  (StepsDone >= 5 /\ predicted # <<>>) =>
    LET t == predicted[1][1]
        c == predicted[2][1]
        hot == t # NaN /\ Compare(t, Thresholds.high) > 0
        warm == t # NaN /\ Compare(t, Thresholds.mid) > 0
        rich == c # NaN /\ Compare(c, Thresholds.co2) > 0
        lean == c # NaN /\ Compare(c, Thresholds.co2) <= 0
    IN /\ Cardinality(CropsShown) = 1
       /\ (hot /\ rich) => Shown(Wheat)
       /\ (~(hot /\ rich) /\ warm /\ lean) => Shown(Rice)
       /\ (~(hot /\ rich) /\ ~(warm /\ lean)) => Shown(Potatoes)
       /\ predicted = BoundaryMeans => Shown(Rice)
       /\ \A ex \in CropExamples : predicted = ex[1] => Shown(ex[2])
       /\ (hot /\ lean) => Shown(Rice)

\* The means are exactly (1.5, 400) and the Rice line has been shown.
C2_Witness ==
  /\ StepsDone >= 5
  /\ predicted = BoundaryMeans
  /\ Shown(Rice)

(* -------------------------------- C3 ----------------------------------- *)

\* C3 (as claimed): after Part 1, an empty filtered view (the rows matching
\* every set filter) means the "no data" warning with no mean and no crop
\* line, and a non-empty one means a crop line and no warning.
C3_NoDataIffViewEmpty ==
  StepsDone >= 5 =>
    IF FilteredView = <<>>
      THEN Shown("warning1") /\ predicted = <<>> /\ CropsShown = {}
      ELSE CropsShown # {} /\ ~Shown("warning1")

(* -------------------------------- C4 ----------------------------------- *)

\* C4 (as claimed): for a non-empty filtered frame every row enters both
\* means, and each mean is the float64 sum of its column over all the rows
\* of the frame divided by the number of rows of the frame.
C4_MeanOverAllRows ==
  (StepsDone >= 5 /\ predicted # <<>>) =>
    LET rows == filtered_df.rows
        tc == ColIndex(filtered_df.columns, TEMPERATURE_ANOMALY)
        cc == ColIndex(filtered_df.columns, AVERAGE_CO2)
        cells(ci, den) == [i \in 1..Len(rows) |-> Float(rows[i][ci][1], den)]
    IN /\ \A i \in 1..Len(rows) : rows[i][tc] # <<>> /\ rows[i][cc] # <<>>
       /\ \E a \in {cells(tc, TempScale)} :
            predicted[1][1] = Div(PairwiseSum(a, 0, Len(rows)), Len(rows))
       /\ \E a \in {cells(cc, Co2Scale)} :
            predicted[2][1] = Div(PairwiseSum(a, 0, Len(rows)), Len(rows))

(* -------------------------------- C5 ----------------------------------- *)

\* C5 (as claimed): when a required column is missing after normalisation,
\* the run never gets as far as applying the filters and produces no output.
C5_MissingColumnFailsFast ==
  (StepsDone >= 1 /\ \E c \in RequiredColumns : ColCount(UploadedColumns, c) = 0) =>
     /\ StepsDone < 4
     /\ output = <<>>

(* -------------------------------- C6 ----------------------------------- *)

\* C6 (as claimed): when a row of the non-empty filtered frame has a missing
\* value in temperature_anomaly or average_co2, the run never shows a mean and
\* a crop line.
C6_MissingValueNotSkipped ==
  (/\ StepsDone >= 5
   /\ ~Empty(filtered_df)
   /\ \E i \in 1..Len(filtered_df.rows) :
         \E c \in {TEMPERATURE_ANOMALY, AVERAGE_CO2} :
            Cell(filtered_df, filtered_df.rows[i], c) = <<>>)
  => ~(Shown("predicted_temp") /\ Shown("predicted_co2") /\ CropsShown # {})

(* -------------------------------- C7 ----------------------------------- *)

\* C7 (as claimed): after Part 3 the map rows are the rows whose year equals
\* the selected year when a year is set (any value other than None) and the
\* whole table otherwise, and each map row is labelled "Selected Country"
\* exactly when its country equals the selected country.
C7_MapRowsAndLabels ==
  StepsDone >= 7 =>
    LET cc == ColIndex(UploadedColumns, COUNTRY)
        yc == ColIndex(UploadedColumns, YEAR)
        expected == RowsWhere(uploaded_file.rows, cc, <<>>, yc, selected_year)
        hc == Len(uploaded_file.header) + 1
    IN /\ UploadedCells(map_data.rows) = expected
       /\ \A r \in 1..Len(map_data.rows) :
             map_data.rows[r][hc] =
               IF selected_country # <<>> /\ map_data.rows[r][cc] = selected_country[1]
                 THEN "Selected Country" ELSE "Other Countries"

(* -------------------------------- C8 ----------------------------------- *)

\* C8 speaks of a chart kind outside the five known kinds.  plot_type is
\* only ever bound by the selectbox of line 172, to one of PlotTypes, so no
\* behaviour of Spec has such a kind and no formula over Spec settles what
\* the dispatch of lines 179-189 would do with one.

(* -------------------------------- C9 ----------------------------------- *)

\* C9 (as claimed): the filter step and the map step leave the table as it
\* was loaded, and the field selectors offer exactly the normalised column
\* names of the uploaded table, never the highlight label.
C9_TableUnchanged ==
  /\ StepsDone >= 1 =>
       df = [columns |-> UploadedColumns, rows |-> uploaded_file.rows]
  /\ plot_type # "" => field_options = UploadedColumns

(* -------------------------------- C10 ---------------------------------- *)

\* C10 (as claimed): the uploaded header names being distinct, the normalised
\* column names are pairwise distinct, have no leading or trailing
\* whitespace, no space and no uppercase letter, and normalising them again
\* changes nothing.
C10_NormalizedNames ==
  LET header == uploaded_file.header
      cols == df.columns
      upper(c) == LowerDelta(c) # 0 \/ c = 304
  IN (pc = "loaded" /\ \A i, j \in 1..Len(header) : header[i] = header[j] => i = j) =>
       /\ \A i, j \in 1..Len(cols) : cols[i] = cols[j] => i = j
       /\ \A i \in 1..Len(cols) :
            /\ cols[i] # <<>> =>
                 cols[i][1] \notin Whitespace /\ cols[i][Len(cols[i])] \notin Whitespace
            /\ \A k \in 1..Len(cols[i]) : cols[i][k] # 32 /\ ~upper(cols[i][k])
       /\ NormalizeColumns(cols) = cols

====
